---------------------------- MODULE Spec2Model ----------------------------
(***************************************************************************)
(* Proximity dispatch: distance resolution with a provider fallback chain, *)
(* candidate ranking, model-based arbitration with deterministic fallback, *)
(* and the assignment state transition (src/agents.py, src/graph.py,       *)
(* src/main.py).                                                           *)
(*                                                                         *)
(* Units.  Coordinates are integers in hundredths of a degree; distances   *)
(* are integers in hundredths of a kilometre (the code rounds every        *)
(* distance to 2 decimals); provider answers are integers in metres.       *)
(*                                                                         *)
(* The graph agents name the identifier fields technician_id/customer_id   *)
(* and the HTTP endpoints name them id; the model uses one identifier per  *)
(* document, i.e. it assumes documents that carry the same value under     *)
(* both names.                                                             *)
(***************************************************************************)
EXTENDS Integers, Sequences, FiniteSets, TLC

VARIABLES
    technicians,   \* db.technicians: id -> document
    customers,     \* db.customers: id -> document
    assignments,   \* db.assignments: documents in insertion order
    pc,            \* per graph run: the node about to execute
    state,         \* per graph run: the DispatchState threaded through the nodes
    err,           \* per graph run: the exception that ended it, if any
    obs,           \* per graph run: the locals of compute_proximity_agent that
                   \* assign_agent does not see (the annotated candidates,
                   \* the shortlist, the model's reply)
    response,      \* the answer an HTTP endpoint of main.py gives in this step
    rel,           \* a /complete-assignment request between its two writes
                   \* (seen: the length of the log at its first write)
    call,          \* the last compute_distance call: inputs and result
    ranked         \* the last ranking: candidates and shortlist

vars == <<technicians, customers, assignments, pc, state, err, obs, response,
          rel, call, ranked>>

---------------------------------------------------------------------------
(* Bounds *)

NumTechs == 2
NumCusts == 2
NumRuns == 2
MaxAssignments == 2
MaxCands == 4

Techs == 1..NumTechs
Custs == 1..NumCusts
Runs == 1..NumRuns

(* Program constants *)

TopK == 3
NoDistance == -1
NoId == 0

---------------------------------------------------------------------------
(* Values stored in documents.  A coordinate field holds a number, a NaN   *)
(* (pandas writes one for an empty CSV cell), a non-numeric string, or is  *)
(* absent.                                                                 *)

Num(v) == [kind |-> "num", v |-> v]
NaN == [kind |-> "nan", v |-> 0]
Text == [kind |-> "str", v |-> 0]
Absent == [kind |-> "none", v |-> 0]

GridValues == {0, 1, 100}
OutOfRangeLats == {9100}

\* all([...]) at agents.py:87 tests truthiness: None and 0 / 0.0 are falsy,
\* NaN and non-empty strings are truthy.
Truthy(x) == x.kind \in {"nan", "str"} \/ (x.kind = "num" /\ x.v # 0)

\* float(x) at agents.py:93-94 succeeds on numbers and NaN, raises otherwise.
FloatOk(x) == x.kind \in {"num", "nan"}

\* geodesic() accepts finite coordinates with latitude in [-90, 90] degrees.
ValidCoord(c) ==
    /\ c[1].kind = "num" /\ c[2].kind = "num"
    /\ c[1].v >= -9000 /\ c[1].v <= 9000

\* WGS-84 ellipsoidal distance between grid points, in hundredths of a km,
\* as geodesic(a, b).km rounded to 2 decimals gives it.
GeodesicTable ==
    { <<<<0, 0>>, <<0, 0>>, 0>>,
      <<<<0, 0>>, <<0, 1>>, 111>>,
      <<<<0, 0>>, <<0, 100>>, 11132>>,
      <<<<0, 0>>, <<1, 0>>, 111>>,
      <<<<0, 0>>, <<1, 1>>, 157>>,
      <<<<0, 0>>, <<1, 100>>, 11132>>,
      <<<<0, 0>>, <<100, 0>>, 11057>>,
      <<<<0, 0>>, <<100, 1>>, 11058>>,
      <<<<0, 0>>, <<100, 100>>, 15690>>,
      <<<<0, 1>>, <<0, 1>>, 0>>,
      <<<<0, 1>>, <<0, 100>>, 11021>>,
      <<<<0, 1>>, <<1, 0>>, 157>>,
      <<<<0, 1>>, <<1, 1>>, 111>>,
      <<<<0, 1>>, <<1, 100>>, 11021>>,
      <<<<0, 1>>, <<100, 0>>, 11058>>,
      <<<<0, 1>>, <<100, 1>>, 11057>>,
      <<<<0, 1>>, <<100, 100>>, 15611>>,
      <<<<0, 100>>, <<0, 100>>, 0>>,
      <<<<0, 100>>, <<1, 0>>, 11132>>,
      <<<<0, 100>>, <<1, 1>>, 11021>>,
      <<<<0, 100>>, <<1, 100>>, 111>>,
      <<<<0, 100>>, <<100, 0>>, 15690>>,
      <<<<0, 100>>, <<100, 1>>, 15611>>,
      <<<<0, 100>>, <<100, 100>>, 11057>>,
      <<<<1, 0>>, <<1, 0>>, 0>>,
      <<<<1, 0>>, <<1, 1>>, 111>>,
      <<<<1, 0>>, <<1, 100>>, 11132>>,
      <<<<1, 0>>, <<100, 0>>, 10947>>,
      <<<<1, 0>>, <<100, 1>>, 10947>>,
      <<<<1, 0>>, <<100, 100>>, 15612>>,
      <<<<1, 1>>, <<1, 1>>, 0>>,
      <<<<1, 1>>, <<1, 100>>, 11021>>,
      <<<<1, 1>>, <<100, 0>>, 10947>>,
      <<<<1, 1>>, <<100, 1>>, 10947>>,
      <<<<1, 1>>, <<100, 100>>, 15533>>,
      <<<<1, 100>>, <<1, 100>>, 0>>,
      <<<<1, 100>>, <<100, 0>>, 15612>>,
      <<<<1, 100>>, <<100, 1>>, 15533>>,
      <<<<1, 100>>, <<100, 100>>, 10947>>,
      <<<<100, 0>>, <<100, 0>>, 0>>,
      <<<<100, 0>>, <<100, 1>>, 111>>,
      <<<<100, 0>>, <<100, 100>>, 11130>>,
      <<<<100, 1>>, <<100, 1>>, 0>>,
      <<<<100, 1>>, <<100, 100>>, 11019>>,
      <<<<100, 100>>, <<100, 100>>, 0>> }

Geodesic(a, b) ==
    LET p == <<a[1].v, a[2].v>>
        q == <<b[1].v, b[2].v>>
    IN  (CHOOSE e \in GeodesicTable :
            (e[1] = p /\ e[2] = q) \/ (e[1] = q /\ e[2] = p))[3]

---------------------------------------------------------------------------
(* Routing providers.  A reply is a 200 with a parseable route distance,   *)
(* a non-200 status, an exception of the request (timeout, connection      *)
(* error), or a 200 whose body does not hold the expected fields.          *)

RouteMeters == {2519, 120004}

OkReplies == {[kind |-> "ok", meters |-> m] : m \in RouteMeters}
FailedReplies == {[kind |-> k, meters |-> 0] : k \in {"status", "exception", "malformed"}}
RoutingReplies == OkReplies \cup FailedReplies

\* round(meters / 1000.0, 2), in hundredths of a km (no value of RouteMeters
\* lies on a rounding tie).
Round2Km(meters) == (meters + 5) \div 10

\* Mutant: the status check of agents.py:40 is missing.
OrsIgnoresStatus(ors) == ors.kind \in {"ok", "status"}

\* agents.py:37-48: ORS answers 200 and the body parses.
OrsSucceeds(ors) == ors.kind = "ok"

\* agents.py:55-63: OSRM answers 200 and the body parses.
OsrmSucceeds(osrm) == osrm.kind = "ok"

\* Mutant: a zero coordinate is taken for a missing one.
GeopyRejectsZero(cc, tc) ==
    /\ ValidCoord(cc) /\ ValidCoord(tc)
    /\ cc[1].v # 0 /\ cc[2].v # 0 /\ tc[1].v # 0 /\ tc[2].v # 0

\* agents.py:71: geodesic() raises on non-finite or out-of-range input.
GeopySucceeds(cc, tc) == ValidCoord(cc) /\ ValidCoord(tc)

\* Mutant: the ORS request is retried once before falling back.
ComputeDistanceRetrying(cc, tc, ors, osrm) ==
    IF OrsSucceeds(ors)
    THEN [distance_km |-> Round2Km(ors.meters), method |-> "ORS",
          steps |-> <<"ORS">>]
    ELSE IF OsrmSucceeds(osrm)
    THEN [distance_km |-> Round2Km(osrm.meters), method |-> "OSRM",
          steps |-> <<"ORS", "ORS", "OSRM">>]
    ELSE IF GeopySucceeds(cc, tc)
    THEN [distance_km |-> Geodesic(cc, tc), method |-> "Geopy",
          steps |-> <<"ORS", "ORS", "OSRM", "Geopy">>]
    ELSE [distance_km |-> NoDistance, method |-> "Failed",
          steps |-> <<"ORS", "ORS", "OSRM", "Geopy">>]

\* compute_distance: the result and the provider steps attempted, in order.
ComputeDistance(cc, tc, ors, osrm) ==
    IF OrsSucceeds(ors)
    THEN [distance_km |-> Round2Km(ors.meters), method |-> "ORS",
          steps |-> <<"ORS">>]
    ELSE IF OsrmSucceeds(osrm)
    THEN [distance_km |-> Round2Km(osrm.meters), method |-> "OSRM",
          steps |-> <<"ORS", "OSRM">>]
    ELSE IF GeopySucceeds(cc, tc)
    THEN [distance_km |-> Geodesic(cc, tc), method |-> "Geopy",
          steps |-> <<"ORS", "OSRM", "Geopy">>]
    ELSE [distance_km |-> NoDistance, method |-> "Failed",
          steps |-> <<"ORS", "OSRM", "Geopy">>]

\* The float pairs compute_distance is called with.
FloatLats == {Num(v) : v \in GridValues \cup OutOfRangeLats} \cup {NaN}
FloatLons == {Num(v) : v \in GridValues} \cup {NaN}
FloatCoords == FloatLats \X FloatLons

NoCall == [made |-> FALSE]

\* One call of compute_distance on arbitrary inputs and provider behaviour.
CallComputeDistance ==
    /\ ~ call.made
    /\ \E cc \in FloatCoords, tc \in FloatCoords,
          ors \in RoutingReplies, osrm \in RoutingReplies :
          call' = [made |-> TRUE, customer_coord |-> cc, tech_coord |-> tc,
                   ors |-> ors, osrm |-> osrm,
                   result |-> ComputeDistance(cc, tc, ors, osrm)]
    /\ UNCHANGED <<technicians, customers, assignments, pc, state, err, obs,
                   response, rel, ranked>>

---------------------------------------------------------------------------
(* Ranking.  A candidate is a technician document annotated with           *)
(* distance_km and distance_method (agents.py:97-104); main.py keeps the   *)
(* same three values under technician_id, distance_km, method.             *)

\* Mutant: a candidate without a distance counts as resolved.
AnyDistance(t) == TRUE

\* agents.py:107: t["distance_km"] is not None
Resolved(t) == t.distance_km # NoDistance

\* Insert x behind every element whose key is <= x's: building a list with
\* it from left to right is the stable sort sorted(..., key=distance_km).
RECURSIVE InsertByDistance(_, _)
InsertByDistance(x, s) ==
    IF s = <<>> THEN <<x>>
    ELSE IF s[1].distance_km <= x.distance_km
         THEN <<s[1]>> \o InsertByDistance(x, Tail(s))
         ELSE <<x>> \o s

RECURSIVE SortedByDistance(_)
SortedByDistance(s) ==
    IF s = <<>> THEN <<>>
    ELSE InsertByDistance(s[Len(s)], SortedByDistance(SubSeq(s, 1, Len(s) - 1)))

\* s[:k]
Take(s, k) == SubSeq(s, 1, IF Len(s) < k THEN Len(s) ELSE k)

\* Mutant: the unresolved candidates are not dropped before sorting.
Top3Unfiltered(candidates) == Take(SortedByDistance(candidates), TopK)

\* agents.py:106-111 and main.py:94-108: drop the unresolved, sort, keep 3.
Top3(candidates) == Take(SortedByDistance(SelectSeq(candidates, Resolved)), TopK)

DistanceChoices == {NoDistance, 111, 252, 12000}

NoRanking == [made |-> FALSE]

\* One ranking of an arbitrary list of annotated candidates.
RankCandidates ==
    /\ ~ ranked.made
    /\ \E n \in 0..MaxCands :
         \E d \in [1..n -> DistanceChoices] :
            LET candidates ==
                  [i \in 1..n |->
                      [technician_id |-> i, distance_km |-> d[i],
                       distance_method |->
                           IF d[i] = NoDistance THEN "Failed" ELSE "Geopy"]]
            IN  ranked' = [made |-> TRUE, candidates |-> candidates,
                           top3 |-> Top3(candidates)]
    /\ UNCHANGED <<technicians, customers, assignments, pc, state, err, obs,
                   response, rel, call>>

---------------------------------------------------------------------------
(* The database after seeding.  init_db.py loads the documents from CSV    *)
(* files that are not part of the repository; the model starts from one of *)
(* three data sets: the points of end-to-end scenario A (everything on the *)
(* equator), a data set with all coordinates non-zero, and a data set with *)
(* unusable coordinates.                                                   *)

Seeds == {"equator", "regular", "dirty"}

SeedCustomer(seed, c) ==
    CASE seed = "equator" -> [latitude |-> Num(0), longitude |-> Num(0)]
      [] seed = "regular" ->
            IF c % 2 = 1 THEN [latitude |-> Num(100), longitude |-> Num(100)]
                         ELSE [latitude |-> Num(1), longitude |-> Num(100)]
      [] seed = "dirty" ->
            IF c % 2 = 1 THEN [latitude |-> Num(100), longitude |-> Num(100)]
                         ELSE [latitude |-> Absent, longitude |-> Num(100)]

SeedTechnician(seed, t) ==
    CASE seed = "equator" ->
            IF t = 2 THEN [latitude |-> Num(0), longitude |-> Num(1)]
                     ELSE [latitude |-> Num(0), longitude |-> Num(100)]
      [] seed = "regular" ->
            IF t = 1 THEN [latitude |-> Num(1), longitude |-> Num(1)]
            ELSE IF t = 2 THEN [latitude |-> Num(100), longitude |-> Num(1)]
            ELSE [latitude |-> Num(1), longitude |-> Num(100)]
      [] seed = "dirty" ->
            IF t = 1 THEN [latitude |-> NaN, longitude |-> Num(100)]
            ELSE IF t = 2 THEN [latitude |-> Num(9100), longitude |-> Num(1)]
            ELSE [latitude |-> Text, longitude |-> Absent]

NoBest == [technician_id |-> NoId, distance_km |-> NoDistance,
           distance_method |-> "None"]
NoCustomer == [customer_id |-> NoId, latitude |-> Absent, longitude |-> Absent]
NoReason == "None"

EmptyState == [ticket |-> NoId, customer |-> NoCustomer, best |-> NoBest,
               llm_reason |-> NoReason]

NoReply == [kind |-> "none", id |-> NoId, reason |-> FALSE]
NoObservation == [candidates |-> <<>>, top3 |-> <<>>, reply |-> NoReply]

NoResponse == [endpoint |-> "none", status |-> "none"]
NoRelease == [pc |-> "idle", technician_id |-> NoId, seen |-> 0]

Init ==
    /\ \E seed \in Seeds :
         /\ technicians =
              [t \in Techs |->
                 [is_free |-> TRUE, assigned_customer |-> NoId,
                  latitude |-> SeedTechnician(seed, t).latitude,
                  longitude |-> SeedTechnician(seed, t).longitude]]
         /\ customers = [c \in Custs |-> SeedCustomer(seed, c)]
    /\ assignments = <<>>
    /\ pc = [r \in Runs |-> "idle"]
    /\ state = [r \in Runs |-> EmptyState]
    /\ err = [r \in Runs |-> ""]
    /\ obs = [r \in Runs |-> NoObservation]
    /\ response = NoResponse
    /\ rel = NoRelease
    /\ call = NoCall
    /\ ranked = NoRanking

---------------------------------------------------------------------------
(* Storage operations used by the agents and the endpoints.                *)

\* Mutant: the query does not filter on is_free.
AllTechnicians == Techs

\* find({"is_free": True}), in the collection's order
FreeTechnicians == {t \in Techs : technicians[t].is_free}

RECURSIVE AscendingSeq(_)
AscendingSeq(S) ==
    IF S = {} THEN <<>>
    ELSE LET m == CHOOSE x \in S : \A y \in S : x <= y
         IN  <<m>> \o AscendingSeq(S \ {m})

\* update_many(filter, {"$set": {"status": "completed"}}) on the records
\* at the positions the filter matches
SetCompleted(asg, matching) ==
    [i \in 1..Len(asg) |->
        IF i \in matching THEN [asg[i] EXCEPT !.status = "completed"] ELSE asg[i]]

---------------------------------------------------------------------------
(* The dispatch graph (graph.py): load_customer -> compute_proximity ->    *)
(* assign -> END.  An exception raised by a node ends the run.             *)

UnknownCustomer == NumCusts + 1
UnknownTechnician == NumTechs + 1
TicketIds == Custs \cup {NoId, UnknownCustomer}

Committing ==
    Cardinality({r \in Runs : pc[r] \in {"assign", "assign_mark", "assign_insert"}})

\* The log is append-only and unbounded in the program; the model lets a
\* request choose a technician only while the log, with the insertions
\* already due, stays within MaxAssignments.
RoomInLog == Len(assignments) + Committing < MaxAssignments

Raise(r, message) ==
    /\ pc' = [pc EXCEPT ![r] = "failed"]
    /\ err' = [err EXCEPT ![r] = message]

\* graph.invoke({"ticket": {...}})
Invoke(r) ==
    /\ pc[r] \in {"idle", "END", "failed"}
    /\ \E id \in TicketIds :
         state' = [state EXCEPT ![r] = [EmptyState EXCEPT !.ticket = id]]
    /\ pc' = [pc EXCEPT ![r] = "load_customer"]
    /\ err' = [err EXCEPT ![r] = ""]
    /\ obs' = [obs EXCEPT ![r] = NoObservation]
    /\ response' = NoResponse
    /\ UNCHANGED <<technicians, customers, assignments, rel, call, ranked>>

LoadCustomerAgent(r) ==
    /\ pc[r] = "load_customer"
    /\ LET cust_id == state[r].ticket IN
       IF cust_id = NoId
       THEN Raise(r, "Missing customer ID in ticket") /\ UNCHANGED state
       ELSE IF cust_id \notin DOMAIN customers
       THEN Raise(r, "Customer not found") /\ UNCHANGED state
       ELSE /\ state' = [state EXCEPT ![r].customer =
                           [customer_id |-> cust_id,
                            latitude |-> customers[cust_id].latitude,
                            longitude |-> customers[cust_id].longitude]]
            /\ pc' = [pc EXCEPT ![r] = "compute_proximity"]
            /\ UNCHANGED err
    /\ UNCHANGED obs
    /\ response' = NoResponse
    /\ UNCHANGED <<technicians, customers, assignments, rel, call, ranked>>

FailedDistance == [distance_km |-> NoDistance, distance_method |-> "Failed"]

\* agents.py:86-104, one iteration: distance_km and distance_method of a
\* candidate, given what the two routing providers answer for it.
TechDistance(customer, tech, ors, osrm) ==
    IF ~ (/\ Truthy(customer.latitude) /\ Truthy(customer.longitude)
          /\ Truthy(tech.latitude) /\ Truthy(tech.longitude))
    THEN FailedDistance
    ELSE IF ~ (/\ FloatOk(customer.latitude) /\ FloatOk(customer.longitude)
               /\ FloatOk(tech.latitude) /\ FloatOk(tech.longitude))
    THEN FailedDistance
    ELSE LET d == ComputeDistance(<<customer.latitude, customer.longitude>>,
                                  <<tech.latitude, tech.longitude>>, ors, osrm)
         IN  [distance_km |-> d.distance_km, distance_method |-> d.method]

\* What an iteration can yield when the providers answer from Ors and Osrm.
DistanceOutcomes(customer, tech, Ors, Osrm) ==
    {TechDistance(customer, tech, ors, osrm) : ors \in Ors, osrm \in Osrm}

\* The annotated candidate list, in the order of the query's result.
Annotated(free, res) ==
    LET order == AscendingSeq(free)
    IN  [i \in 1..Len(order) |->
            [technician_id |-> order[i],
             distance_km |-> res[order[i]].distance_km,
             distance_method |-> res[order[i]].distance_method]]

(* The generative-model service.  A reply is an exception of the request,  *)
(* a non-200 status, a 200 with a blank body, a 200 whose body lacks       *)
(* choices[0].message.content, content that is not JSON, JSON that is not  *)
(* an object, or a JSON object with or without "id" and "reason".          *)

FallbackReason == "LLM failed, assigned first nearest technician"
DefaultReason == "Chosen based on proximity"
ModelReason == "reason written by the model"

ReplyIds == Techs \cup {NoId, UnknownTechnician}
UnreachableReplies ==
    {[kind |-> k, id |-> NoId, reason |-> FALSE] : k \in {"exception", "status", "empty"}}
UnparseableReplies ==
    {[kind |-> k, id |-> NoId, reason |-> FALSE] : k \in {"badbody", "notjson", "notobject"}}
ObjectReplies ==
    {[kind |-> "object", id |-> i, reason |-> b] : i \in ReplyIds, b \in BOOLEAN}
LlmReplies == UnreachableReplies \cup UnparseableReplies \cup ObjectReplies

\* Mutant: the fallback takes the last entry of the shortlist.
ArbitrateFallsBackToLast(top3, reply) ==
    IF reply.kind # "object"
    THEN [best |-> top3[Len(top3)], llm_reason |-> FallbackReason]
    ELSE [best |-> IF \E i \in 1..Len(top3) : top3[i].technician_id = reply.id
                   THEN top3[CHOOSE i \in 1..Len(top3) : top3[i].technician_id = reply.id]
                   ELSE top3[1],
          llm_reason |-> IF reply.reason THEN ModelReason ELSE DefaultReason]

\* agents.py:127-158: the technician chosen and the justification.
Arbitrate(top3, reply) ==
    IF reply.kind # "object"
    THEN [best |-> top3[1], llm_reason |-> FallbackReason]
    ELSE [best |-> IF \E i \in 1..Len(top3) : top3[i].technician_id = reply.id
                   THEN top3[CHOOSE i \in 1..Len(top3) :
                               /\ top3[i].technician_id = reply.id
                               /\ \A j \in 1..(i - 1) : top3[j].technician_id # reply.id]
                   ELSE top3[1],
          llm_reason |-> IF reply.reason THEN ModelReason ELSE DefaultReason]

\* The outcomes of the distance loop (agents.py:85-104) possible for a run's
\* customer and the free technicians when the providers answer from Ors and
\* Osrm.
Resolutions(r, Ors, Osrm) ==
    LET outcomes == [t \in FreeTechnicians |->
                        DistanceOutcomes(state[r].customer, technicians[t], Ors, Osrm)]
    IN  {res \in [FreeTechnicians -> UNION {outcomes[t] : t \in FreeTechnicians}] :
            \A t \in FreeTechnicians : res[t] \in outcomes[t]}

\* The annotated candidate lists those outcomes lead to.
CandidateLists(r, Ors, Osrm) ==
    {Annotated(FreeTechnicians, res) : res \in Resolutions(r, Ors, Osrm)}

\* compute_proximity_agent, given the candidate list its distance loop
\* produces and the reply of the model service.
ComputeProximityStep(r, candidates, reply) ==
    /\ pc[r] = "compute_proximity"
    /\ LET top3 == Top3(candidates) IN
       IF candidates = <<>>
       THEN /\ Raise(r, "No free technicians available")
            /\ obs' = [obs EXCEPT ![r] = [NoObservation EXCEPT !.candidates = candidates]]
            /\ UNCHANGED state
       ELSE IF top3 = <<>>
       THEN /\ Raise(r, "No technicians with valid distance computed")
            /\ obs' = [obs EXCEPT ![r] = [NoObservation EXCEPT !.candidates = candidates]]
            /\ UNCHANGED state
       ELSE LET choice == Arbitrate(top3, reply) IN
            /\ RoomInLog
            /\ state' = [state EXCEPT ![r].best = choice.best,
                                      ![r].llm_reason = choice.llm_reason]
            /\ obs' = [obs EXCEPT ![r] = [candidates |-> candidates, top3 |-> top3,
                                          reply |-> reply]]
            /\ pc' = [pc EXCEPT ![r] = "assign"]
            /\ UNCHANGED err
    /\ response' = NoResponse
    /\ UNCHANGED <<technicians, customers, assignments, rel, call, ranked>>

\* compute_proximity_agent, with the routing providers answering from Ors
\* and Osrm and the model service from Llm.
ComputeProximityAgent(r, Ors, Osrm, Llm) ==
    /\ pc[r] = "compute_proximity"
    /\ \E candidates \in CandidateLists(r, Ors, Osrm) :
         \E reply \in Llm : ComputeProximityStep(r, candidates, reply)

---------------------------------------------------------------------------
(* assign_agent: three writes, without a transaction.                      *)

\* Mutant: only the customer's open assignments are completed.
CompleteStaleOfCustomer(asg, tech_id, cust_id) ==
    SetCompleted(asg, {i \in 1..Len(asg) :
                         asg[i].status = "assigned" /\ asg[i].customer_id = cust_id})

\* Mutant: nothing is completed before the insertion.
CompleteStaleNothing(asg, tech_id, cust_id) == asg

\* agents.py:172-177
CompleteStale(asg, tech_id, cust_id) ==
    SetCompleted(asg, {i \in 1..Len(asg) :
                         /\ asg[i].status = "assigned"
                         /\ (asg[i].tech_id = tech_id \/ asg[i].customer_id = cust_id)})

\* Mutant: the update also frees every other technician.
MarkAssignedFreesOthers(techs, tech_id, cust_id) ==
    [t \in DOMAIN techs |->
        IF t = tech_id
        THEN [techs[t] EXCEPT !.is_free = FALSE, !.assigned_customer = cust_id]
        ELSE [techs[t] EXCEPT !.is_free = TRUE]]

\* Mutant: the update does not record the customer.
MarkAssignedNoCustomer(techs, tech_id, cust_id) ==
    [techs EXCEPT ![tech_id].is_free = FALSE]

\* agents.py:179-185 (availability_status always mirrors is_free and is
\* not kept apart)
MarkAssigned(techs, tech_id, cust_id) ==
    [techs EXCEPT ![tech_id].is_free = FALSE,
                  ![tech_id].assigned_customer = cust_id]

\* Mutant: the record is inserted as completed.
NewAssignmentCompleted(best, cust_id, llm_reason) ==
    [customer_id |-> cust_id, tech_id |-> best.technician_id,
     distance_km |-> best.distance_km, distance_method |-> best.distance_method,
     llm_reason |-> llm_reason, status |-> "completed"]

\* agents.py:187-198
NewAssignment(best, cust_id, llm_reason) ==
    [customer_id |-> cust_id, tech_id |-> best.technician_id,
     distance_km |-> best.distance_km, distance_method |-> best.distance_method,
     llm_reason |-> llm_reason, status |-> "assigned"]

\* agents.py:200-201: state.best becomes the stored technician document,
\* which has no distance fields.
Finish(r) ==
    /\ state' = [state EXCEPT ![r].best =
                    [technician_id |-> state[r].best.technician_id,
                     distance_km |-> NoDistance, distance_method |-> "None"]]
    /\ obs' = [obs EXCEPT ![r] = NoObservation]
    /\ pc' = [pc EXCEPT ![r] = "END"]

\* The whole node, run without interruption.
AssignAgent(r) ==
    /\ pc[r] = "assign"
    /\ LET tech_id == state[r].best.technician_id
           cust_id == state[r].customer.customer_id
       IN  /\ assignments' =
                 Append(CompleteStale(assignments, tech_id, cust_id),
                        NewAssignment(state[r].best, cust_id, state[r].llm_reason))
           /\ technicians' = MarkAssigned(technicians, tech_id, cust_id)
    /\ Finish(r)
    /\ response' = NoResponse
    /\ UNCHANGED <<customers, err, rel, call, ranked>>

\* The node write by write, other requests running in between.
AssignCompleteStale(r) ==
    /\ pc[r] = "assign"
    /\ assignments' = CompleteStale(assignments, state[r].best.technician_id,
                                    state[r].customer.customer_id)
    /\ pc' = [pc EXCEPT ![r] = "assign_mark"]
    /\ response' = NoResponse
    /\ UNCHANGED <<technicians, customers, state, err, obs, rel, call, ranked>>

AssignMarkTechnician(r) ==
    /\ pc[r] = "assign_mark"
    /\ technicians' = MarkAssigned(technicians, state[r].best.technician_id,
                                   state[r].customer.customer_id)
    /\ pc' = [pc EXCEPT ![r] = "assign_insert"]
    /\ response' = NoResponse
    /\ UNCHANGED <<assignments, customers, state, err, obs, rel, call, ranked>>

AssignInsert(r) ==
    /\ pc[r] = "assign_insert"
    /\ assignments' = Append(assignments,
                             NewAssignment(state[r].best,
                                           state[r].customer.customer_id,
                                           state[r].llm_reason))
    /\ Finish(r)
    /\ response' = NoResponse
    /\ UNCHANGED <<technicians, customers, err, rel, call, ranked>>

---------------------------------------------------------------------------
(* The HTTP endpoints of main.py.                                          *)

\* Mutant: the assigned-customer reference is kept.
MarkFreeKeepsCustomer(techs, technician_id) ==
    [techs EXCEPT ![technician_id].is_free = TRUE]

\* main.py:151-159
MarkFree(techs, technician_id) ==
    [techs EXCEPT ![technician_id].is_free = TRUE,
                  ![technician_id].assigned_customer = NoId]

\* main.py:162-165
CompleteOngoing(asg, technician_id) ==
    SetCompleted(asg, {i \in 1..Len(asg) :
                         asg[i].tech_id = technician_id /\ asg[i].status # "completed"})

\* Mutant: the early return for a free technician is missing.
NeverAlreadyFree(technician_id) == FALSE

\* main.py:145: the technician is already free
AlreadyFree(technician_id) == technicians[technician_id].is_free

Respond(endpoint, status) == response' = [endpoint |-> endpoint, status |-> status]

\* POST /complete-assignment, run without interruption.
CompleteAssignment(technician_id) ==
    /\ rel.pc = "idle"
    /\ IF technician_id \notin DOMAIN technicians
       THEN /\ Respond("complete-assignment", "404 Technician not found")
            /\ UNCHANGED <<technicians, assignments>>
       ELSE IF AlreadyFree(technician_id)
       THEN /\ Respond("complete-assignment", "noop")
            /\ UNCHANGED <<technicians, assignments>>
       ELSE /\ technicians' = MarkFree(technicians, technician_id)
            /\ assignments' = CompleteOngoing(assignments, technician_id)
            /\ Respond("complete-assignment", "success")
    /\ UNCHANGED <<customers, pc, state, err, obs, rel, call, ranked>>

\* POST /complete-assignment up to and including its first write.
ReleaseBegin(technician_id) ==
    /\ rel.pc = "idle"
    /\ IF technician_id \notin DOMAIN technicians
       THEN /\ Respond("complete-assignment", "404 Technician not found")
            /\ UNCHANGED <<technicians, rel>>
       ELSE IF AlreadyFree(technician_id)
       THEN /\ Respond("complete-assignment", "noop")
            /\ UNCHANGED <<technicians, rel>>
       ELSE /\ technicians' = MarkFree(technicians, technician_id)
            /\ rel' = [pc |-> "complete", technician_id |-> technician_id,
                       seen |-> Len(assignments)]
            /\ response' = NoResponse
    /\ UNCHANGED <<customers, assignments, pc, state, err, obs, call, ranked>>

\* POST /complete-assignment, its second write and its answer.
ReleaseFinish ==
    /\ rel.pc = "complete"
    /\ assignments' = CompleteOngoing(assignments, rel.technician_id)
    /\ Respond("complete-assignment", "success")
    /\ rel' = NoRelease
    /\ UNCHANGED <<technicians, customers, pc, state, err, obs, call, ranked>>

\* compute_distance_ors (main.py:32-43) followed by round(distance, 2)
\* (main.py:99): only the primary provider, no fallback.
OrsDistance(ors) ==
    IF OrsSucceeds(ors)
    THEN [distance_km |-> Round2Km(ors.meters), distance_method |-> "ORS"]
    ELSE [distance_km |-> NoDistance, distance_method |-> "ORS Failed"]

\* What the model service's answer amounts to in llm_recommend_best_technician:
\* an integer read from the digits of the content, or any failure on the way.
IdReplies ==
    {[kind |-> "fail", id |-> NoId]}
        \cup {[kind |-> "id", id |-> i] : i \in Techs \cup {UnknownTechnician}}

\* main.py:46-76
LlmRecommendBestTechnician(top3, reply) ==
    IF reply.kind = "fail" THEN top3[1].technician_id ELSE reply.id

\* GET /recommend, run without interruption.
Recommend(customer_id) ==
    /\ IF customer_id \notin DOMAIN customers
       THEN /\ Respond("recommend", "404 Customer not found")
            /\ UNCHANGED <<technicians, assignments>>
       ELSE IF FreeTechnicians = {}
       THEN /\ Respond("recommend", "404 No available technicians")
            /\ UNCHANGED <<technicians, assignments>>
       ELSE \E top3 \in {Top3(Annotated(FreeTechnicians, res)) :
                           res \in [FreeTechnicians ->
                                      {OrsDistance(ors) : ors \in RoutingReplies}]} :
              IF top3 = <<>>
              THEN /\ Respond("recommend", "500 No distances could be computed")
                   /\ UNCHANGED <<technicians, assignments>>
              ELSE \E reply \in IdReplies :
                     LET best_id == LlmRecommendBestTechnician(top3, reply) IN
                     IF \A i \in 1..Len(top3) : top3[i].technician_id # best_id
                     THEN \* next() raises StopIteration
                          /\ Respond("recommend", "500 Internal Server Error")
                          /\ UNCHANGED <<technicians, assignments>>
                     ELSE LET best == top3[CHOOSE i \in 1..Len(top3) :
                                              top3[i].technician_id = best_id]
                          IN  /\ RoomInLog
                              /\ technicians' = MarkAssigned(technicians, best_id, customer_id)
                              /\ assignments' =
                                    Append(assignments,
                                           NewAssignment(best, customer_id, NoReason))
                              /\ Respond("recommend", "200")
    /\ UNCHANGED <<customers, pc, state, err, obs, rel, call, ranked>>

---------------------------------------------------------------------------
(* Specifications.                                                         *)

\* The dispatch graph with the providers and the model service answering
\* in every way, one run after another.
Worker == CHOOSE r \in Runs : \A q \in Runs : r <= q

NextGraph ==
    \/ Invoke(Worker)
    \/ LoadCustomerAgent(Worker)
    \/ ComputeProximityAgent(Worker, RoutingReplies, RoutingReplies, LlmReplies)
    \/ AssignAgent(Worker)

SpecGraph == Init /\ [][NextGraph]_vars

\* For the specifications about the stored state: the routing providers
\* are down and the model service either fails or names a technician.
DownRouting == {[kind |-> "exception", meters |-> 0]}
FewLlmReplies ==
    {[kind |-> "exception", id |-> NoId, reason |-> FALSE]}
        \cup {[kind |-> "object", id |-> i, reason |-> TRUE] : i \in Techs}

\* The graph and the HTTP endpoints, each node and each endpoint run
\* without interruption.
Next ==
    \/ Invoke(Worker)
    \/ LoadCustomerAgent(Worker)
    \/ ComputeProximityAgent(Worker, DownRouting, DownRouting, FewLlmReplies)
    \/ AssignAgent(Worker)
    \/ \E c \in Custs \cup {UnknownCustomer} : Recommend(c)
    \/ \E t \in Techs \cup {UnknownTechnician} : CompleteAssignment(t)

Spec == Init /\ [][Next]_vars

\* Several dispatches and a release in flight, interleaved at the level of
\* single database writes.
NextConc ==
    \/ \E r \in Runs : Invoke(r)
    \/ \E r \in Runs : LoadCustomerAgent(r)
    \/ \E r \in Runs : ComputeProximityAgent(r, DownRouting, DownRouting, FewLlmReplies)
    \/ \E r \in Runs : AssignCompleteStale(r)
    \/ \E r \in Runs : AssignMarkTechnician(r)
    \/ \E r \in Runs : AssignInsert(r)
    \/ \E t \in Techs \cup {UnknownTechnician} : ReleaseBegin(t)
    \/ ReleaseFinish

SpecConc == Init /\ [][NextConc]_vars

\* One dispatch at a time with assign_agent write by write; the endpoints
\* answer only while no dispatch stands between its writes.
BetweenWrites == \E r \in Runs : pc[r] \in {"assign_mark", "assign_insert"}

NextSteps ==
    \/ Invoke(Worker)
    \/ LoadCustomerAgent(Worker)
    \/ ComputeProximityAgent(Worker, DownRouting, DownRouting, FewLlmReplies)
    \/ AssignCompleteStale(Worker)
    \/ AssignMarkTechnician(Worker)
    \/ AssignInsert(Worker)
    \/ ~ BetweenWrites /\ \E c \in Custs : Recommend(c)
    \/ ~ BetweenWrites /\ \E t \in Techs : CompleteAssignment(t)

SpecSteps == Init /\ [][NextSteps]_vars

\* compute_distance alone, on arbitrary inputs.
SpecDist == Init /\ [][CallComputeDistance]_vars

\* The ranking alone, on arbitrary candidate lists.
SpecRank == Init /\ [][RankCandidates]_vars

---------------------------------------------------------------------------
(* Properties of compute_distance (checked under SpecDist).                *)

ReplyOk(reply) == reply.kind = "ok"

\* A pair of finite numbers with the latitude within [-90, 90] degrees.
WellFormed(c) ==
    /\ c[1].kind = "num" /\ c[2].kind = "num"
    /\ c[1].v \in -9000..9000

\* C1: the fallback chain order is respected.  Whenever the primary provider
\* fails (non-200, exception, unparseable body) the returned tag is not the
\* primary one, and the tag is always that of the first step, in the order
\* primary -> secondary -> geometric, that succeeded ("Failed" if none did).
C1_FallbackOrder ==
    call.made =>
        LET tag == call.result.method
            geometric == WellFormed(call.customer_coord) /\ WellFormed(call.tech_coord)
        IN  /\ ~ ReplyOk(call.ors) => tag # "ORS"
            /\ tag = "ORS" <=> ReplyOk(call.ors)
            /\ tag = "OSRM" <=> (~ ReplyOk(call.ors) /\ ReplyOk(call.osrm))
            /\ tag = "Geopy" <=>
                  (~ ReplyOk(call.ors) /\ ~ ReplyOk(call.osrm) /\ geometric)
            /\ tag = "Failed" <=>
                  (~ ReplyOk(call.ors) /\ ~ ReplyOk(call.osrm) /\ ~ geometric)

\* A call in which the primary provider answered a non-200 status and the
\* secondary succeeded.
C1_Witness ==
    /\ call.made
    /\ call.ors.kind = "status"
    /\ call.osrm.kind = "ok"
    /\ call.result.method = "OSRM"

\* C2: for well-formed coordinates compute_distance returns a non-null
\* distance whatever the two routing providers do; (None, "Failed") is
\* returned only when the geometric fallback fails on malformed input, and a
\* null distance always carries the tag "Failed".
C2_DistanceResolved ==
    call.made =>
        LET wellFormed == WellFormed(call.customer_coord) /\ WellFormed(call.tech_coord)
        IN  /\ wellFormed => call.result.distance_km # NoDistance
            /\ call.result.method = "Failed" => ~ wellFormed
            /\ call.result.distance_km = NoDistance <=> call.result.method = "Failed"

\* Both providers failed on well-formed coordinates one of which is zero,
\* and the geometric fallback resolved the distance.
C2_Witness ==
    /\ call.made
    /\ call.ors.kind = "exception"
    /\ call.osrm.kind = "malformed"
    /\ call.customer_coord = <<Num(0), Num(0)>>
    /\ call.tech_coord = <<Num(0), Num(100)>>
    /\ call.result = [distance_km |-> 11132, method |-> "Geopy",
                      steps |-> <<"ORS", "OSRM", "Geopy">>]

---------------------------------------------------------------------------
(* Properties of the ranking (checked under SpecRank).                     *)

ResolvedCount(candidates) ==
    Cardinality({i \in DOMAIN candidates : candidates[i].distance_km # NoDistance})

\* C3: the shortlist is sorted ascending by distance, holds only candidates
\* with a non-null distance, each once, and has length at most 3 and at
\* most the number of candidates whose distance resolved.
C3_ShortlistSorted ==
    ranked.made =>
        LET s == ranked.top3
            c == ranked.candidates
        IN  /\ \A i \in DOMAIN s : \A j \in DOMAIN s :
                  i < j => s[i].distance_km <= s[j].distance_km
            /\ \A i \in DOMAIN s : s[i].distance_km # NoDistance
            /\ \A i \in DOMAIN s : \E k \in DOMAIN c : c[k] = s[i]
            /\ \A i \in DOMAIN s : \A j \in DOMAIN s :
                  i # j => s[i].technician_id # s[j].technician_id
            /\ Len(s) <= 3
            /\ Len(s) <= ResolvedCount(c)

\* Four candidates, one unresolved in front and the others out of order:
\* the shortlist is the three resolved ones, reordered.
C3_Witness ==
    /\ ranked.made
    /\ Len(ranked.candidates) = 4
    /\ ranked.candidates[1].distance_km = NoDistance
    /\ ranked.candidates[2].distance_km > ranked.candidates[3].distance_km
    /\ Len(ranked.top3) = 3

---------------------------------------------------------------------------
(* Properties of the arbitration (checked under SpecGraph).                *)

LastAssignment(asg) == asg[Len(asg)]

\* C4: when the model service is unreachable (the request raises, or it
\* answers a non-200 status or a blank body) the arbiter has chosen the
\* first entry of the shortlist with the fixed fallback justification, the
\* run stands at assign without an error, and assign commits that choice.
C4_ArbiterFallback ==
    [][\A r \in Runs :
         (pc[r] = "assign" /\ obs[r].reply \in UnreachableReplies) =>
            /\ err[r] = ""
            /\ state[r].best = obs[r].top3[1]
            /\ state[r].llm_reason = FallbackReason
            /\ pc'[r] # pc[r] =>
                 /\ pc'[r] = "END"
                 /\ err'[r] = ""
                 /\ Len(assignments') = Len(assignments) + 1
                 /\ LastAssignment(assignments').tech_id = obs[r].top3[1].technician_id
                 /\ LastAssignment(assignments').llm_reason = FallbackReason
                 /\ LastAssignment(assignments').status = "assigned"
      ]_vars

\* The model service answered a non-200 status to a run whose shortlist had
\* two entries, and the run stands at assign.
C4_Witness ==
    \E r \in Runs :
        /\ pc[r] = "assign"
        /\ obs[r].reply.kind = "status"
        /\ Len(obs[r].top3) = 2
        /\ state[r].best = obs[r].top3[1]

\* The replies that fail a validation check against a shortlist.
RejectedReplies(top3) ==
    UnreachableReplies \cup UnparseableReplies
        \cup {reply \in ObjectReplies :
                \A i \in 1..Len(top3) : top3[i].technician_id # reply.id}

\* C5: a reply that fails any validation check, a JSON object whose id
\* matches no shortlist entry included, makes the arbiter choose the first
\* entry of the shortlist with the fixed fallback justification.
C5_FallbackOnRejectedReply ==
    \A r \in Runs :
        (pc[r] = "assign" /\ obs[r].reply \in RejectedReplies(obs[r].top3)) =>
            /\ state[r].best = obs[r].top3[1]
            /\ state[r].llm_reason = FallbackReason

---------------------------------------------------------------------------
(* Properties of the assignment state (checked under Spec, C7 under        *)
(* SpecConc).                                                              *)

AssignedTo(asg, tech_id) ==
    {i \in 1..Len(asg) : asg[i].tech_id = tech_id /\ asg[i].status = "assigned"}

\* C6: when a dispatch commits a technician who already has a record with
\* status assigned, every such record is completed by assign and afterwards
\* exactly one record with status assigned references the technician.
C6_ReassignCompletesOld ==
    [][\A r \in Runs :
         (pc[r] = "assign" /\ pc'[r] = "END") =>
            LET tech_id == state[r].best.technician_id IN
            /\ \A i \in AssignedTo(assignments, tech_id) :
                  assignments'[i].status = "completed"
            /\ Cardinality(AssignedTo(assignments', tech_id)) = 1
            /\ AssignedTo(assignments', tech_id) = {Len(assignments')}
      ]_vars

\* A dispatch is about to commit a technician who has an assigned record
\* (the technician was free when the dispatch ranked and has been assigned
\* by /recommend since).
C6_Witness ==
    \E r \in Runs :
        /\ pc[r] = "assign"
        /\ AssignedTo(assignments, state[r].best.technician_id) # {}

\* C7: two concurrent dispatches for different customers never both hold
\* the same technician: no two records with status assigned reference the
\* same technician.
C7_NoDoubleWin ==
    \A i \in 1..Len(assignments) : \A j \in 1..Len(assignments) :
        (/\ i # j
         /\ assignments[i].status = "assigned"
         /\ assignments[j].status = "assigned"
         /\ assignments[i].customer_id # assignments[j].customer_id)
            => assignments[i].tech_id # assignments[j].tech_id

\* C8: release is idempotent.  On a technician who is already free it
\* answers "noop" and changes neither the technicians nor the assignments;
\* on any other technician it leaves the technician free, so that a second
\* release is such a no-op.
C8_ReleaseIdempotent ==
    [][\A t \in Techs :
         CompleteAssignment(t) =>
            /\ technicians[t].is_free =>
                 /\ response'.status = "noop"
                 /\ technicians' = technicians
                 /\ assignments' = assignments
            /\ technicians'[t].is_free
      ]_vars

\* A release answered "noop" for a technician released before: the
\* technician is free and has a completed assignment.
C8_Witness ==
    /\ response = [endpoint |-> "complete-assignment", status |-> "noop"]
    /\ \E i \in 1..Len(assignments) :
          /\ assignments[i].status = "completed"
          /\ technicians[assignments[i].tech_id].is_free

\* C9: with no free technician a dispatch fails with the no-candidates
\* error and writes nothing; a failed run never reaches assign.
C9_NoCandidatesNoWrites ==
    [][\A r \in Runs :
         /\ (/\ pc[r] = "compute_proximity"
             /\ \A t \in Techs : ~ technicians[t].is_free
             /\ pc'[r] # pc[r]) =>
               /\ pc'[r] = "failed"
               /\ err'[r] = "No free technicians available"
               /\ technicians' = technicians
               /\ assignments' = assignments
         /\ pc[r] = "failed" => pc'[r] \in {"failed", "load_customer"}
      ]_vars

\* A run failed with the no-candidates error while every technician is
\* unavailable.
C9_Witness ==
    \E r \in Runs :
        /\ pc[r] = "failed"
        /\ err[r] = "No free technicians available"
        /\ \A t \in Techs : ~ technicians[t].is_free
        /\ Len(assignments) > 0

---------------------------------------------------------------------------
(* End-to-end scenario A (checked under SpecGraph).                        *)

\* The customer at (0, 0), technician 1 at (0, 1.00) and technician 2 at
\* (0, 0.01), both free, the run about to rank.
ScenarioA(r) ==
    /\ pc[r] = "compute_proximity"
    /\ state[r].customer.latitude = Num(0)
    /\ state[r].customer.longitude = Num(0)
    /\ FreeTechnicians = {1, 2}
    /\ technicians[1].latitude = Num(0) /\ technicians[1].longitude = Num(100)
    /\ technicians[2].latitude = Num(0) /\ technicians[2].longitude = Num(1)

\* C10: in scenario A the dispatch goes on to assign; with both routing
\* providers and the model unreachable the shortlist is [near, far] by the
\* geometric fallback and the near technician is chosen.
C10_ScenarioA ==
    [][\A r \in Runs :
         (ScenarioA(r) /\ pc'[r] # pc[r]) =>
            /\ pc'[r] = "assign"
            /\ (/\ obs'[r].reply \in UnreachableReplies
                /\ \A i \in 1..Len(obs'[r].top3) :
                      obs'[r].top3[i].distance_method = "Geopy") =>
                  /\ obs'[r].top3 =
                        <<[technician_id |-> 2, distance_km |-> 111,
                           distance_method |-> "Geopy"],
                          [technician_id |-> 1, distance_km |-> 11132,
                           distance_method |-> "Geopy"]>>
                  /\ state'[r].best.technician_id = 2
      ]_vars

---------------------------------------------------------------------------
(* The life of an assignment record (checked under Spec).                  *)

\* C11: every assignment record is created with status assigned, its status
\* changes only from assigned to completed, a completed record is never
\* assigned again, no record is deleted and no field but the status is ever
\* edited.
C11_StatusMonotonic ==
    [][/\ Len(assignments') >= Len(assignments)
       /\ \A i \in 1..Len(assignments) :
             /\ [assignments'[i] EXCEPT !.status = assignments[i].status]
                    = assignments[i]
             /\ assignments'[i].status # assignments[i].status =>
                    /\ assignments[i].status = "assigned"
                    /\ assignments'[i].status = "completed"
       /\ \A i \in (Len(assignments) + 1)..Len(assignments') :
             assignments'[i].status = "assigned"
      ]_vars

\* An older record has been completed and a newer one is assigned.
C11_Witness ==
    /\ Len(assignments) = 2
    /\ assignments[1].status = "completed"
    /\ assignments[2].status = "assigned"

\* C12: when the chosen technician is no longer free at the commit, assign
\* ends the run with a distinct AssignmentConflict outcome, leaves the
\* technician's record alone and inserts nothing.
C12_AssignmentConflict ==
    [][\A r \in Runs :
         (/\ pc[r] = "assign"
          /\ ~ technicians[state[r].best.technician_id].is_free
          /\ pc'[r] # pc[r]) =>
            /\ pc'[r] = "failed"
            /\ err'[r] = "AssignmentConflict"
            /\ technicians' = technicians
            /\ assignments' = assignments
      ]_vars

---------------------------------------------------------------------------
(* The errors of the ranking (checked under SpecGraph).                    *)

\* The run has left compute_proximity_agent, by either of its two errors
\* or towards assign.
HasRanked(r) ==
    \/ pc[r] = "assign"
    \/ /\ pc[r] = "failed"
       /\ err[r] \in {"No free technicians available",
                      "No technicians with valid distance computed"}

\* C13: the ranking fails with the no-candidates error exactly when no
\* technician is free, with the no-resolvable-distance error exactly when
\* some are free and none resolved, and otherwise goes on to assign with a
\* shortlist made of resolved candidates only, as many of them as fit.
C13_RankerErrors ==
    \A r \in Runs :
        HasRanked(r) =>
            LET c == obs[r].candidates
                s == obs[r].top3
            IN  /\ Len(c) = Cardinality(FreeTechnicians)
                /\ err[r] = "No free technicians available" <=> c = <<>>
                /\ err[r] = "No technicians with valid distance computed" <=>
                      (c # <<>> /\ ResolvedCount(c) = 0)
                /\ pc[r] = "assign" <=> ResolvedCount(c) > 0
                /\ pc[r] = "assign" =>
                      /\ Len(s) = IF ResolvedCount(c) < 3 THEN ResolvedCount(c) ELSE 3
                      /\ \A i \in DOMAIN s :
                            /\ s[i].distance_km # NoDistance
                            /\ \E k \in DOMAIN c : c[k] = s[i]

\* Two technicians were free, the distance of one did not resolve, and the
\* run went on to assign with the other.
C13_Witness ==
    \E r \in Runs :
        /\ pc[r] = "assign"
        /\ Len(obs[r].candidates) = 2
        /\ ResolvedCount(obs[r].candidates) = 1
        /\ Len(obs[r].top3) = 1

---------------------------------------------------------------------------
(* The order of assign's writes (checked under SpecSteps).                 *)

\* C14: within one assign, with nothing else in flight, the writes happen
\* in the order complete-stale, mark-technician, insert; after each of them
\* at most one record with status assigned references the technician.
C14_WriteOrder ==
    [][\A r \in Runs :
         (pc[r] \in {"assign", "assign_mark", "assign_insert"} /\ pc'[r] # pc[r]) =>
            LET tech_id == state[r].best.technician_id IN
            /\ Cardinality(AssignedTo(assignments', tech_id)) <= 1
            /\ pc[r] = "assign" =>
                  /\ pc'[r] = "assign_mark"
                  /\ AssignedTo(assignments', tech_id) = {}
                  /\ Len(assignments') = Len(assignments)
                  /\ technicians' = technicians
            /\ pc[r] = "assign_mark" =>
                  /\ pc'[r] = "assign_insert"
                  /\ ~ technicians'[tech_id].is_free
                  /\ assignments' = assignments
            /\ pc[r] = "assign_insert" =>
                  /\ pc'[r] = "END"
                  /\ Len(assignments') = Len(assignments) + 1
                  /\ technicians' = technicians
      ]_vars

\* Between the first and the second write of an assign that found a stale
\* record of its technician: the record is completed, none is assigned.
C14_Witness ==
    \E r \in Runs :
        /\ pc[r] = "assign_mark"
        /\ AssignedTo(assignments, state[r].best.technician_id) = {}
        /\ \E i \in 1..Len(assignments) :
              /\ assignments[i].tech_id = state[r].best.technician_id
              /\ assignments[i].status = "completed"

---------------------------------------------------------------------------
(* The steps of compute_distance (checked under SpecDist).                 *)

\* C15: in one compute_distance call no provider step is attempted twice,
\* the steps come in the order ORS, OSRM, Geopy, OSRM is attempted exactly
\* when ORS failed and Geopy exactly when both ORS and OSRM failed.
C15_StepsOnce ==
    call.made =>
        LET steps == call.result.steps
            Tried(p) == \E i \in DOMAIN steps : steps[i] = p
        IN  /\ \A i \in DOMAIN steps : \A j \in DOMAIN steps :
                  i # j => steps[i] # steps[j]
            /\ steps = SubSeq(<<"ORS", "OSRM", "Geopy">>, 1, Len(steps))
            /\ Tried("ORS")
            /\ Tried("OSRM") <=> ~ ReplyOk(call.ors)
            /\ Tried("Geopy") <=> (~ ReplyOk(call.ors) /\ ~ ReplyOk(call.osrm))

\* The ORS request raised and OSRM answered: two steps, Geopy not tried.
C15_Witness ==
    /\ call.made
    /\ call.ors.kind = "exception"
    /\ call.osrm.kind = "ok"
    /\ call.result.steps = <<"ORS", "OSRM">>

---------------------------------------------------------------------------
(* Release and availability (checked under Spec).                          *)

\* C16: release of a technician who is not free leaves the technician free
\* with the assigned-customer reference cleared and each of the technician's
\* records that was not completed now completed; every other technician and
\* every record of another technician is unchanged.
C16_ReleaseEffect ==
    [][\A t \in Techs :
         (CompleteAssignment(t) /\ ~ technicians[t].is_free) =>
            /\ technicians'[t] = [technicians[t] EXCEPT !.is_free = TRUE,
                                                        !.assigned_customer = NoId]
            /\ \A u \in Techs \ {t} : technicians'[u] = technicians[u]
            /\ Len(assignments') = Len(assignments)
            /\ \A i \in 1..Len(assignments) :
                  assignments'[i] =
                     IF assignments[i].tech_id = t
                     THEN [assignments[i] EXCEPT !.status = "completed"]
                     ELSE assignments[i]
            /\ response'.status = "success"
      ]_vars

\* A release answered "success": the technician is free without a customer
\* and has a completed record, while another technician is still assigned.
C16_Witness ==
    /\ response = [endpoint |-> "complete-assignment", status |-> "success"]
    /\ \E i \in 1..Len(assignments) : \E j \in 1..Len(assignments) :
          /\ assignments[i].status = "completed"
          /\ technicians[assignments[i].tech_id].is_free
          /\ technicians[assignments[i].tech_id].assigned_customer = NoId
          /\ assignments[j].status = "assigned"
          /\ ~ technicians[assignments[j].tech_id].is_free

\* C17: a technician who is unavailable becomes free only by a release that
\* answers "success"; a step of a dispatch changes no technician but the
\* chosen one, whom assign makes unavailable, and so does /recommend.
C17_FreedOnlyByRelease ==
    [][/\ \A t \in Techs :
             (~ technicians[t].is_free /\ technicians'[t].is_free) =>
                response' = [endpoint |-> "complete-assignment", status |-> "success"]
       /\ \A r \in Runs :
             pc'[r] # pc[r] =>
                \A t \in Techs :
                   technicians'[t] # technicians[t] =>
                      /\ pc[r] = "assign"
                      /\ t = state[r].best.technician_id
                      /\ ~ technicians'[t].is_free
       /\ response'.endpoint = "recommend" =>
             \A t \in Techs :
                technicians'[t] # technicians[t] =>
                   /\ Len(assignments') = Len(assignments) + 1
                   /\ t = LastAssignment(assignments').tech_id
                   /\ ~ technicians'[t].is_free
      ]_vars

\* A dispatch has committed while another technician was unavailable, and
\* that technician still is.
C17_Witness ==
    \E r \in Runs :
        /\ pc[r] = "END"
        /\ Len(assignments) = 2
        /\ assignments[2].tech_id = state[r].best.technician_id
        /\ assignments[1].tech_id # assignments[2].tech_id
        /\ assignments[1].status = "assigned"
        /\ \A t \in Techs : ~ technicians[t].is_free

---------------------------------------------------------------------------
(* The /recommend endpoint (checked under Spec).                           *)

\* C18: once /recommend has a shortlist, whatever the model service
\* answers, the endpoint answers 200 having marked a technician unavailable
\* and inserted the assignment; no error is surfaced.
C18_RecommendRecovers ==
    [][(/\ response'.endpoint = "recommend"
        /\ response'.status \notin {"404 Customer not found",
                                     "404 No available technicians",
                                     "500 No distances could be computed"}) =>
            /\ response'.status = "200"
            /\ Len(assignments') = Len(assignments) + 1
            /\ LastAssignment(assignments').status = "assigned"
            /\ ~ technicians'[LastAssignment(assignments').tech_id].is_free
      ]_vars

---------------------------------------------------------------------------
(* Records and technicians agree (checked under Spec, C20 under SpecConc). *)

\* C19: with every node and endpoint run without interruption, each record
\* with status assigned references a technician who is unavailable and
\* whose assigned-customer reference is the record's customer.
C19_AssignedMeansUnavailable ==
    \A i \in 1..Len(assignments) :
        assignments[i].status = "assigned" =>
            /\ ~ technicians[assignments[i].tech_id].is_free
            /\ technicians[assignments[i].tech_id].assigned_customer
                  = assignments[i].customer_id

\* A technician was reassigned from one customer to another: the old
\* record is completed, the new one assigned, the technician unavailable
\* for the new customer.
C19_Witness ==
    /\ Len(assignments) = 2
    /\ assignments[1].status = "completed"
    /\ assignments[2].status = "assigned"
    /\ assignments[1].tech_id = assignments[2].tech_id
    /\ assignments[1].customer_id # assignments[2].customer_id
    /\ ~ technicians[assignments[2].tech_id].is_free
    /\ technicians[assignments[2].tech_id].assigned_customer
          = assignments[2].customer_id

\* C20: the second write of a release of technician T completes no record
\* that a dispatch inserted after the release had marked T free, so that no
\* step leaves T unavailable for a customer whose fresh assignment is
\* already completed.
C20_ReleaseSparesNewAssignment ==
    [][(rel.pc = "complete" /\ rel'.pc = "idle") =>
          \A i \in (rel.seen + 1)..Len(assignments) :
             ~ (/\ assignments[i].status = "assigned"
                /\ assignments'[i].status = "completed"
                /\ ~ technicians'[assignments[i].tech_id].is_free
                /\ technicians'[assignments[i].tech_id].assigned_customer
                      = assignments[i].customer_id)
      ]_vars
=============================================================================
